---- MODULE Spec2Model ----
(***************************************************************************)
(* SimCoupe Win32 audio back-end (SimCoupe/Win32/Audio.cpp).               *)
(*                                                                         *)
(* The module state is the file's statics (pds, pdsb, nSampleBufferSize,   *)
(* dwWriteOffset, hEvent, hTimer, dwTimer).  Around it the model keeps the *)
(* objects the Win32 calls act on: the DirectSound device and buffer       *)
(* (memory, play cursor, playing flag), the multimedia timers and the      *)
(* auto-reset event.  The emulator's main loop is the only caller; it runs *)
(* Init, Exit, Silence and AddData one at a time.  AddData has two places  *)
(* where it yields (Sleep(2) in the write loop, WaitForSingleObject in the *)
(* pacer), so it is split there; the device and the timer run in between.  *)
(***************************************************************************)
EXTENDS Integers, Sequences, FiniteSets, TLC

(* ------------------------------ bounds --------------------------------- *)

\* DWORD width of the model: DWORD arithmetic is taken modulo 2^DWordBits
DWordBits == 4
\* bytes of one frame of samples, nSamplesPerFrame*SAMPLE_BLOCK, scaled down
FrameBytes == 3
\* nLength_ of an AddData call ranges over 0..MaxLength
MaxLength == 3

(* ---------------------------- constants -------------------------------- *)

EMULATED_FRAMES_PER_SECOND == 50

\* GetOption(speed) values the caller is run with
Speeds == {1, 100, 200}

\* GetOption(latency) values the caller is run with
Latencies == {0, 1}

NULL == 0

\* outcome marker of the integer division by zero in the frame-time formula
Fault == -1

RECURSIVE Pow2(_)
Pow2(n) == IF n = 0 THEN 1 ELSE 2 * Pow2(n - 1)

DWordModulus == Pow2(DWordBits)

\* a value of type DWORD
DWORD == 0 .. (DWordModulus - 1)

\* unsigned 32-bit wrap-around of an arithmetic result
ToDWORD(x) == x % DWordModulus

Min(a, b) == IF a < b THEN a ELSE b

\* the smallest handle value the system has not handed out in S
NewHandle(S) == CHOOSE h \in 1 .. (Cardinality(S) + 1) : h \notin S

\* the PCM bytes the emulator passes for a frame of n bytes: 1 0 0 1 0 0 ...
SampleStream(n) == [i \in 1 .. n |-> IF i % 3 = 1 THEN 1 ELSE 0]

\* content of a freshly created device buffer of n bytes (not silence)
FreshBuffer(n) == [i \in 0 .. (n - 1) |-> 1]

\* values an indeterminate DWORD is given: one that is a valid buffer offset
\* and one that is not
Indeterminate == {0, DWordModulus - 1}

VARIABLES
    pds,                \* IDirectSound *pds (NULL or a device handle)
    pdsb,               \* IDirectSoundBuffer *pdsb (NULL or a buffer handle)
    nSampleBufferSize,  \* int nSampleBufferSize
    dwWriteOffset,      \* DWORD dwWriteOffset
    hEvent,             \* HANDLE hEvent
    hTimer,             \* MMRESULT hTimer
    dwTimer,            \* DWORD dwTimer
    osDevices,          \* DirectSound devices not yet released
    osBuffers,          \* sound buffers not yet released
    osEvents,           \* event handles not yet closed
    osTimers,           \* periodic timers running: records [id, period]
    buf,                \* memory of the device buffer, 0 .. size-1
    devPlay,            \* play cursor of the device buffer
    playing,            \* the buffer is playing (looping)
    signalled,          \* state of the auto-reset event hEvent
    pc,                 \* where the caller is: idle, write, wait, fault
    pbData,             \* AddData: the source bytes from pbData_ on
    nLength,            \* AddData: nLength_
    ret,                \* what the last call returned: true, false, none
    initResult,         \* how the last Init went (which step failed)
    offsetAtCallStart,  \* dwWriteOffset when the running AddData began
    nDone,              \* bytes the running or the last AddData has committed
    lastSpans,          \* <<dwLength1, dwLength2>> of its last commit
    expectOffset,       \* (initialOffset + N) mod bufferSize since Init or Silence
    fired,              \* TimeCallback has set the event since the last
                        \* AddData return
    timerFailed,        \* the last timeSetEvent failed, and no buffer has
                        \* been created since
    lastSpeed,          \* GetOption(speed) as the last paced AddData read it
    exitReleased,       \* what the last call released, if it was Exit
    timerOp,            \* what the waiting AddData did with the timer: kept,
                        \* started, restarted, failed; none when no call waits
    silenced            \* Silence was the last call to end on the active
                        \* buffer and the play cursor has not moved since

statics == <<pds, pdsb, nSampleBufferSize, dwWriteOffset, hEvent, hTimer, dwTimer>>
system == <<osDevices, osBuffers, osEvents, osTimers, buf, devPlay, playing, signalled>>
caller == <<pc, pbData, nLength, ret>>
history == <<initResult, offsetAtCallStart, nDone, lastSpans, expectOffset, fired, timerFailed, lastSpeed, exitReleased, timerOp, silenced>>
vars == <<statics, system, caller, history>>

Init ==
    /\ pds = NULL /\ pdsb = NULL
    /\ nSampleBufferSize = 0 /\ dwWriteOffset = 0
    /\ hEvent = NULL /\ hTimer = NULL /\ dwTimer = 0
    /\ osDevices = {} /\ osBuffers = {} /\ osEvents = {} /\ osTimers = {}
    /\ buf = << >> /\ devPlay = 0 /\ playing = FALSE
    /\ signalled = FALSE
    /\ pc = "idle" /\ pbData = << >> /\ nLength = 0 /\ ret = "none"
    /\ initResult = "none"
    /\ offsetAtCallStart = 0 /\ nDone = 0 /\ lastSpans = <<0, 0>> /\ expectOffset = 0
    /\ fired = FALSE /\ timerFailed = FALSE /\ lastSpeed = 0 /\ exitReleased = {}
    /\ timerOp = "none" /\ silenced = FALSE

(* ----------------------- the DirectSound buffer ------------------------ *)

\* IDirectSoundBuffer::Lock(offset, bytes, ...) on a buffer of `size` bytes
\* accepts the region only if it lies in the buffer
LockValid(offset, bytes, size) ==
    /\ offset < size
    /\ bytes > 0
    /\ bytes <= size

\* the two spans Lock hands back for a valid region: the first runs from the
\* offset to the end of the region or of the buffer, the second holds what
\* wraps to the start of the buffer
LockSpans(offset, bytes, size) ==
    LET len1 == Min(bytes, size - offset)
    IN  [pvWrite1 |-> offset, dwLength1 |-> len1,
         pvWrite2 |-> 0, dwLength2 |-> bytes - len1]

\* memcpy(dst, src, n) into the buffer memory mem; src is a sequence
Memcpy(mem, dst, src, n) ==
    [i \in DOMAIN mem |->
        IF i >= dst /\ i < dst + n THEN src[i - dst + 1] ELSE mem[i]]

\* memset(pvWrite, 0x00, dwLength) over the whole locked buffer
Memset(mem, n) ==
    [i \in DOMAIN mem |-> IF i < n THEN 0 ELSE mem[i]]

\* pbData_ += n
Advance(data, n) == SubSeq(data, n + 1, Len(data))

(* ------------------------------ Audio::Exit ---------------------------- *)

\* ExitDirectSound: if (pdsb) pdsb->Release(), pdsb = NULL
BuffersAfterRelease == IF pdsb # NULL THEN osBuffers \ {pdsb} ELSE osBuffers
\* ExitDirectSound: if (pds) pds->Release(), pds = NULL
DevicesAfterRelease == IF pds # NULL THEN osDevices \ {pds} ELSE osDevices
\* (mutant) Exit forgets the timer: no timeKillEvent
TimersLeftRunning == osTimers

\* if (hTimer) timeKillEvent(hTimer), hTimer = NULL
TimersAfterExit == IF hTimer # NULL THEN {t \in osTimers : t.id # hTimer} ELSE osTimers
\* if (hEvent) CloseHandle(hEvent), hEvent = NULL
EventsAfterClose == IF hEvent # NULL THEN osEvents \ {hEvent} ELSE osEvents

\* the handles Exit would pass to Release, timeKillEvent or CloseHandle
ExitReleases ==
    {<<"pdsb", pdsb>>, <<"pds", pds>>, <<"hTimer", hTimer>>, <<"hEvent", hEvent>>}
        \ {<<"pdsb", NULL>>, <<"pds", NULL>>, <<"hTimer", NULL>>, <<"hEvent", NULL>>}

AudioExit ==
    /\ pc = "idle"
    /\ pdsb' = NULL /\ pds' = NULL
    /\ hTimer' = NULL /\ hEvent' = NULL
    /\ UNCHANGED <<nSampleBufferSize, dwWriteOffset, dwTimer>>
    /\ osBuffers' = BuffersAfterRelease
    /\ osDevices' = DevicesAfterRelease
    /\ osTimers' = TimersAfterExit
    /\ osEvents' = EventsAfterClose
    /\ buf' = IF pdsb # NULL THEN << >> ELSE buf
    /\ devPlay' = IF pdsb # NULL THEN 0 ELSE devPlay
    /\ playing' = IF pdsb # NULL THEN FALSE ELSE playing
    /\ signalled' = IF hEvent # NULL THEN FALSE ELSE signalled
    /\ pc' = "idle" /\ pbData' = << >> /\ nLength' = 0 /\ ret' = "none"
    /\ initResult' = "none"
    /\ fired' = FALSE /\ lastSpeed' = 0
    /\ exitReleased' = ExitReleases
    /\ timerOp' = "none" /\ silenced' = FALSE
    /\ nDone' = 0
    /\ UNCHANGED <<offsetAtCallStart, lastSpans, expectOffset, timerFailed>>

(* ------------------------------ Audio::Init ---------------------------- *)

\* the steps of Init that can fail, and "ok"
InitOutcomes == {"nosound", "create", "coop", "buffer", "play", "ok"}

\* nSampleBufferSize = nSamplesPerFrame*SAMPLE_BLOCK * (1+GetOption(latency))
BufferSize(latency) == FrameBytes * (1 + latency)

\* InitDirectSound got as far as DirectSoundCreate succeeding
DeviceCreated(outcome) == outcome \in {"coop", "buffer", "play", "ok"}
\* InitDirectSound got as far as computing nSampleBufferSize
SizeComputed(outcome) == outcome \in {"buffer", "play", "ok"}
\* CreateSoundBuffer succeeded and stored the buffer in pdsb
BufferCreated(outcome) == outcome \in {"play", "ok"}

\* Init: Exit(true), then InitDirectSound unless sound is off, then the
\* event of the frame timer if there is no buffer.  `outcome` names the step
\* that fails: "nosound" is GetOption(sound) off, "create" DirectSoundCreate,
\* "coop" SetCooperativeLevel, "buffer" CreateSoundBuffer, "play" Play.  A
\* failed creation leaves its out-pointer NULL.  CreateEvent, whose result
\* the code does not test, is taken to succeed.  dwWriteOffset and dwTimer
\* are not assigned anywhere in Init or Exit.
AudioInit(latency, outcome) ==
    LET newPds == IF DeviceCreated(outcome) THEN NewHandle(DevicesAfterRelease) ELSE NULL
        newPdsb == IF BufferCreated(outcome) THEN NewHandle(BuffersAfterRelease) ELSE NULL
        newSize == IF SizeComputed(outcome) THEN BufferSize(latency) ELSE nSampleBufferSize
        newEvent == IF newPdsb = NULL THEN NewHandle(EventsAfterClose) ELSE NULL
    IN  /\ pc = "idle"
        /\ pds' = newPds
        /\ pdsb' = newPdsb
        /\ nSampleBufferSize' = newSize
        /\ hEvent' = newEvent
        /\ hTimer' = NULL
        /\ UNCHANGED <<dwWriteOffset, dwTimer>>
        /\ osDevices' = DevicesAfterRelease \cup ({newPds} \ {NULL})
        /\ osBuffers' = BuffersAfterRelease \cup ({newPdsb} \ {NULL})
        /\ osEvents' = EventsAfterClose \cup ({newEvent} \ {NULL})
        /\ osTimers' = TimersAfterExit
        /\ buf' = IF newPdsb # NULL THEN FreshBuffer(newSize) ELSE << >>
        /\ devPlay' = 0
        /\ playing' = (outcome = "ok")
        /\ signalled' = FALSE
        /\ pc' = "idle" /\ pbData' = << >> /\ nLength' = 0 /\ ret' = "true"
        /\ initResult' = outcome
        /\ expectOffset' = IF newPdsb # NULL THEN dwWriteOffset % newSize ELSE expectOffset
        /\ fired' = FALSE /\ lastSpeed' = 0 /\ exitReleased' = {}
        /\ timerOp' = "none" /\ silenced' = FALSE
        /\ nDone' = 0
        /\ timerFailed' = IF newPdsb # NULL THEN FALSE ELSE timerFailed
        /\ UNCHANGED <<offsetAtCallStart, lastSpans>>

(* ----------------------------- Audio::Silence -------------------------- *)

\* (mutant) Silence tests the buffer size instead of the buffer pointer
SilenceTestsSize == nSampleBufferSize = 0

\* if (!pdsb) return: nothing to do if there's no sound buffer
SilenceSkips == pdsb = NULL

\* Silence: no-op without a buffer; else zero the whole buffer if the lock
\* succeeds and take the play cursor as the write offset.  The result of
\* GetCurrentPosition is not tested: when the query fails dwPlayCursor was
\* never written and dwWriteOffset receives an indeterminate DWORD.
AudioSilence(lockOk, queryOk, garbage) ==
    /\ pc = "idle"
    /\ IF SilenceSkips
       THEN UNCHANGED <<dwWriteOffset, buf, expectOffset>>
       ELSE LET dwPlayCursor == IF queryOk THEN devPlay ELSE garbage
            IN  /\ buf' = IF lockOk THEN Memset(buf, nSampleBufferSize) ELSE buf
                /\ dwWriteOffset' = dwPlayCursor
                /\ expectOffset' = dwPlayCursor % nSampleBufferSize
    /\ pc' = "idle" /\ pbData' = << >> /\ nLength' = 0 /\ ret' = "none"
    /\ UNCHANGED <<pds, pdsb, nSampleBufferSize, hEvent, hTimer, dwTimer>>
    /\ UNCHANGED <<osDevices, osBuffers, osEvents, osTimers, devPlay, playing, signalled>>
    /\ exitReleased' = {}
    /\ timerOp' = "none" /\ silenced' = ~SilenceSkips
    /\ nDone' = 0
    /\ UNCHANGED <<initResult, offsetAtCallStart, lastSpans, fired, timerFailed, lastSpeed>>

(* ----------------------- Audio::AddData, frame pacer ------------------- *)

\* EMULATED_FRAMES_PER_SECOND*GetOption(speed)/100
FrameRate(speed) == (EMULATED_FRAMES_PER_SECOND * speed) \div 100

\* 1000 / (EMULATED_FRAMES_PER_SECOND*GetOption(speed)/100): the quotients
\* the division can produce.  A zero divisor is undefined behaviour: the
\* division traps (Fault) or, where the hardware does not trap, yields 0.
Quotients(speed) ==
    IF FrameRate(speed) = 0 THEN {Fault, 0} ELSE {1000 \div FrameRate(speed)}

\* if (!dwTime) dwTime = 1
FrameTime(quotient) == IF quotient = 0 THEN 1 ELSE quotient

\* if (dwTime != dwTimer): the frame time has changed
FrameTimeChanged(dwTime) == dwTime # dwTimer

\* (mutant) the existing timer is not killed before the new one is started
TimersNotKilled == osTimers

\* Kill any existing timer: if (hTimer) timeKillEvent(hTimer)
TimersAfterKill == IF hTimer # NULL THEN {t \in osTimers : t.id # hTimer} ELSE osTimers

\* (mutant) timeSetEvent leaves a timer running even when it reports failure
TimerStartsAnyway(dwTime, startOk) ==
    TimersAfterKill \cup {[id |-> NewHandle({t.id : t \in TimersAfterKill}), period |-> dwTime]}

\* the running timers once AddData has (re)started the frame timer
TimersAfterStart(dwTime, startOk) ==
    IF startOk
    THEN TimersAfterKill \cup {[id |-> NewHandle({t.id : t \in TimersAfterKill}), period |-> dwTime]}
    ELSE TimersAfterKill

\* hTimer = timeSetEvent(...): the new timer's handle, NULL on failure
StartedTimer(startOk) ==
    IF startOk THEN NewHandle({t.id : t \in TimersAfterKill}) ELSE NULL

\* what a call that finds the frame time changed does with the timer
TimerOpOfRestart(startOk) ==
    IF ~startOk THEN "failed" ELSE IF hTimer # NULL THEN "restarted" ELSE "started"

\* (mutant) AddData takes the timer path whether or not there is a buffer
PacesWithBuffer == TRUE

\* if (!pdsb): no sound buffer, use the timer as a frame sync source
NoSoundBuffer == pdsb = NULL

\* AddData without a buffer, up to the wait: compute the frame time and
\* restart the timer if it changed
AddDataPacer(speed, startOk) ==
    /\ pc = "idle"
    /\ NoSoundBuffer
    /\ \E quotient \in Quotients(speed) :
       IF quotient = Fault
       THEN /\ pc' = "fault"
            /\ UNCHANGED <<hTimer, dwTimer, osTimers, timerFailed, timerOp>>
       ELSE LET dwTime == FrameTime(quotient)
            IN  /\ pc' = "wait"
                /\ IF FrameTimeChanged(dwTime)
                   THEN /\ osTimers' = TimersAfterStart(dwTime, startOk)
                        /\ hTimer' = StartedTimer(startOk)
                        /\ dwTimer' = dwTime
                        /\ timerFailed' = ~startOk
                        /\ timerOp' = TimerOpOfRestart(startOk)
                   ELSE /\ UNCHANGED <<hTimer, dwTimer, osTimers, timerFailed>>
                        /\ timerOp' = "kept"
    /\ pbData' = << >> /\ nLength' = 0 /\ ret' = "none"
    /\ lastSpeed' = speed /\ exitReleased' = {}
    /\ UNCHANGED silenced
    /\ UNCHANGED <<pds, pdsb, nSampleBufferSize, dwWriteOffset, hEvent>>
    /\ UNCHANGED <<osDevices, osBuffers, osEvents, buf, devPlay, playing, signalled>>
    /\ UNCHANGED <<initResult, offsetAtCallStart, nDone, lastSpans, expectOffset, fired>>

\* (mutant) the wait gives up after a timeout instead of INFINITE
WaitTimesOut == TRUE

\* WaitForSingleObject(hEvent, INFINITE) returns: the event is signalled, or
\* the handle is NULL and the wait fails at once
WaitSatisfied == hEvent = NULL \/ signalled

\* the wait is over; the auto-reset event is consumed; return false
AddDataWake ==
    /\ pc = "wait"
    /\ WaitSatisfied
    /\ signalled' = FALSE
    /\ pc' = "idle" /\ ret' = "false"
    /\ fired' = FALSE
    /\ timerOp' = "none"
    /\ UNCHANGED silenced
    /\ UNCHANGED <<statics, osDevices, osBuffers, osEvents, osTimers, buf, devPlay, playing>>
    /\ UNCHANGED <<pbData, nLength, initResult, offsetAtCallStart, nDone, lastSpans, expectOffset, timerFailed, lastSpeed, exitReleased>>

\* TimeCallback of a running timer: SetEvent(hEvent)
TimeCallback ==
    /\ osTimers # {}
    /\ IF hEvent # NULL
       THEN signalled' = TRUE /\ fired' = TRUE
       ELSE UNCHANGED <<signalled, fired>>
    /\ UNCHANGED <<statics, osDevices, osBuffers, osEvents, osTimers, buf, devPlay, playing>>
    /\ UNCHANGED <<caller, initResult, offsetAtCallStart, nDone, lastSpans, expectOffset, timerFailed, lastSpeed, exitReleased>>
    /\ UNCHANGED <<timerOp, silenced>>

(* ----------------------- Audio::AddData, write loop -------------------- *)

\* (mutant) the space is measured from the play cursor to the write offset
SpaceReversed(dwPlayCursor) ==
    ToDWORD(nSampleBufferSize + dwWriteOffset - dwPlayCursor) % nSampleBufferSize

\* int nSpace = (nSampleBufferSize + dwPlayCursor - dwWriteOffset) % nSampleBufferSize,
\* evaluated in DWORD arithmetic
SpaceAt(dwPlayCursor) ==
    ToDWORD(nSampleBufferSize + dwPlayCursor - dwWriteOffset) % nSampleBufferSize

\* nSpace = min(nSpace, nLength_)
AvailableSpace(dwPlayCursor) == Min(SpaceAt(dwPlayCursor), nLength)

\* dwLength1 = min(dwLength1, nLength_)
FirstLength(spans) == Min(spans.dwLength1, nLength)

\* dwLength2 = min(dwLength2, nLength_), nLength_ already less the first part
SecondLength(spans) == Min(spans.dwLength2, nLength - FirstLength(spans))

\* (mutant) the second memcpy reads from pbData_ before it was advanced
CopySpansNoAdvance(spans) ==
    LET first == Memcpy(buf, spans.pvWrite1, pbData, FirstLength(spans))
    IN  Memcpy(first, spans.pvWrite2, pbData, SecondLength(spans))

\* the buffer memory after the two memcpy calls
CopySpans(spans) ==
    LET first == Memcpy(buf, spans.pvWrite1, pbData, FirstLength(spans))
    IN  Memcpy(first, spans.pvWrite2, Advance(pbData, FirstLength(spans)),
               SecondLength(spans))

\* dwWriteOffset = (dwWriteOffset + dwLength1 + dwLength2) % nSampleBufferSize
NextWriteOffset(spans) ==
    ToDWORD(dwWriteOffset + FirstLength(spans) + SecondLength(spans)) % nSampleBufferSize

\* (mutant) the loop does not test the remaining length
LoopNeverDone(remaining) == FALSE

\* if (!nLength_) break: all written, exit the loop
LoopDone(remaining) == remaining = 0

\* the call returns true (the break of a failed query, or all written)
ReturnTrue == pc' = "idle" /\ ret' = "true"

\* AddData with a buffer: entry.  The loop is not entered for a length of 0.
AddDataBegin(len) ==
    /\ pc = "idle"
    /\ pdsb # NULL
    /\ IF len > 0
       THEN /\ pc' = "write" /\ ret' = "none"
            /\ pbData' = SampleStream(len)
            /\ offsetAtCallStart' = dwWriteOffset
            /\ UNCHANGED silenced
       ELSE /\ ReturnTrue
            /\ pbData' = << >>
            /\ offsetAtCallStart' = 0
            /\ silenced' = FALSE
    /\ nLength' = len
    /\ nDone' = 0
    /\ lastSpans' = <<0, 0>>
    /\ UNCHANGED <<statics, system, initResult, expectOffset, fired, timerFailed, lastSpeed, exitReleased, timerOp>>

\* (mutant) the result of GetCurrentPosition is not tested
QueryFailureIgnored(queryOk) == FALSE

\* if (FAILED(hr = pdsb->GetCurrentPosition(&dwPlayCursor, NULL)))
QueryFailed(queryOk) == ~queryOk

\* One iteration of the write loop, from the cursor query to the Sleep(2) or
\* the return.  Lock fails when the device says so, and for a region that
\* does not lie in the buffer.  The memcpy calls write the buffer memory
\* itself; the result of Unlock (unlockOk) is discarded by the code, so
\* every byte copied is counted as committed whatever Unlock returned.
AddDataIterate(queryOk, lockOk, unlockOk) ==
    /\ pc = "write"
    /\ IF QueryFailed(queryOk)
       THEN /\ ReturnTrue
            /\ pbData' = << >>
            /\ offsetAtCallStart' = 0 /\ lastSpans' = <<0, 0>>
            /\ silenced' = FALSE
            /\ UNCHANGED <<dwWriteOffset, buf, nLength, expectOffset, nDone>>
       ELSE LET nSpace == AvailableSpace(devPlay)
                spans == LockSpans(dwWriteOffset, nSpace, nSampleBufferSize)
                written == FirstLength(spans) + SecondLength(spans)
            IN  IF nSpace # 0 /\ lockOk /\ LockValid(dwWriteOffset, nSpace, nSampleBufferSize)
                THEN /\ buf' = CopySpans(spans)
                     /\ pbData' = Advance(pbData, written)
                     /\ nLength' = nLength - written
                     /\ dwWriteOffset' = NextWriteOffset(spans)
                     /\ expectOffset' = (expectOffset + written) % nSampleBufferSize
                     /\ nDone' = nDone + written
                     /\ silenced' = FALSE
                     /\ IF LoopDone(nLength - written)
                        THEN /\ ReturnTrue
                             /\ offsetAtCallStart' = 0
                             /\ lastSpans' = <<0, 0>>
                        ELSE /\ UNCHANGED <<pc, ret, offsetAtCallStart>>
                             /\ lastSpans' = <<FirstLength(spans), SecondLength(spans)>>
                ELSE UNCHANGED <<dwWriteOffset, buf, pbData, nLength, nDone, silenced,
                                 expectOffset, lastSpans, pc, ret, offsetAtCallStart>>
    /\ UNCHANGED <<pds, pdsb, nSampleBufferSize, hEvent, hTimer, dwTimer>>
    /\ UNCHANGED <<osDevices, osBuffers, osEvents, osTimers, devPlay, playing, signalled>>
    /\ UNCHANGED <<initResult, fired, timerFailed, lastSpeed, exitReleased, timerOp>>

(* ------------------------------ the device ----------------------------- *)

\* the playing buffer consumes a byte: its play cursor moves on, looping
DevicePlay ==
    /\ pdsb # NULL
    /\ playing
    /\ devPlay' = (devPlay + 1) % nSampleBufferSize
    /\ silenced' = FALSE
    /\ UNCHANGED <<statics, osDevices, osBuffers, osEvents, osTimers, buf, playing, signalled>>
    /\ UNCHANGED <<caller, initResult, offsetAtCallStart, nDone, lastSpans, expectOffset>>
    /\ UNCHANGED <<fired, timerFailed, lastSpeed, exitReleased, timerOp>>

(* --------------------------- the specification ------------------------- *)

\* the results a device call can give: either one when the code reaches the
\* call, and nothing to choose when the call is not made
Reached(called) == IF called THEN BOOLEAN ELSE {TRUE}

\* GetOption(latency) as Init reads it: nothing to choose when Init fails
\* before it computes the buffer size
LatencyRead(outcome) == IF SizeComputed(outcome) THEN Latencies ELSE {0}

\* what the local dwPlayCursor of Silence holds apart from the result of
\* the query: nothing to choose when the query fills it in
UnsetCursor(queryOk) == IF queryOk THEN {0} ELSE Indeterminate

Next ==
    \/ \E outcome \in InitOutcomes :
          \E latency \in LatencyRead(outcome) : AudioInit(latency, outcome)
    \/ AudioExit
    \/ \E lockOk \in BOOLEAN, queryOk \in BOOLEAN :
          \E garbage \in UnsetCursor(queryOk) : AudioSilence(lockOk, queryOk, garbage)
    \/ \E speed \in Speeds, startOk \in BOOLEAN : AddDataPacer(speed, startOk)
    \/ AddDataWake
    \/ \E len \in 0 .. MaxLength : AddDataBegin(len)
    \/ \E queryOk \in BOOLEAN :
          \E lockOk \in Reached(queryOk) :
             \E unlockOk \in Reached(queryOk /\ lockOk) :
                AddDataIterate(queryOk, lockOk, unlockOk)
    \/ TimeCallback
    \/ DevicePlay

Spec == Init /\ [][Next]_vars

\* an iteration of the write loop whose query and lock succeed and that
\* finds space: it commits at least one byte
CommitIteration == AddDataIterate(TRUE, TRUE, TRUE) /\ nLength' < nLength

\* The scheduling of the write loop.  A playing buffer keeps consuming, so
\* its cursor keeps moving (weak fairness of DevicePlay).  The loop samples
\* the cursor every Sleep(2), far more often than the cursor comes round the
\* buffer, so it cannot find the gap closed at every sample: an iteration
\* that can commit again and again does commit (strong fairness).
FairSpec ==
    /\ Init /\ [][Next]_vars
    /\ WF_vars(DevicePlay)
    /\ SF_vars(CommitIteration)

(* ------------------------------- claims -------------------------------- *)

\* the gap between the write offset and a sampled play cursor, as a number:
\* (bufferSize + playCursor - writeOffset) mod bufferSize
Gap(playCursor) == (nSampleBufferSize + playCursor - dwWriteOffset) % nSampleBufferSize

\* a step in which some operation of the caller's runs as Init does
InitStep == \E latency \in Latencies, outcome \in InitOutcomes : AudioInit(latency, outcome)

\* a step in which Silence runs on an active buffer
SilenceStep ==
    /\ pdsb # NULL
    /\ \E lockOk \in BOOLEAN, queryOk \in BOOLEAN, garbage \in Indeterminate :
          AudioSilence(lockOk, queryOk, garbage)

\* C1: with the buffer active, AddData returns true only if all nLength_
\* bytes were committed during the call: whenever a call has returned true,
\* nothing of its length is left (a failed cursor query must give false).
C1_TrueOnlyIfAllWritten ==
    (pc = "idle" /\ ret = "true") => nLength = 0

\* C2: on an active buffer, after N committed bytes since the offset was last
\* set (by Init or Silence), dwWriteOffset = (initialOffset + N) mod
\* bufferSize.
C2_OffsetIsInitialPlusCommitted ==
    pdsb # NULL => dwWriteOffset = expectOffset

\* C3: in every iteration of the write loop the length asked of Lock and the
\* bytes committed exceed neither the gap to the play cursor sampled in that
\* iteration nor the remaining length.
C3_LockWithinGap ==
    [][pc = "write" =>
        /\ AvailableSpace(devPlay) <= Gap(devPlay)
        /\ AvailableSpace(devPlay) <= nLength
        /\ nLength - nLength' <= Min(Gap(devPlay), nLength)]_vars

\* C4: when an iteration commits n bytes, source bytes nDone .. nDone+n-1 of
\* the call land at (offsetAtCallStart + i) mod bufferSize, in order, and no
\* other byte of the buffer changes.
C4_BytesLandInOrder ==
    [][(pc = "write" /\ nLength' < nLength) =>
        LET n == nLength - nLength'
            source == SampleStream(nDone + nLength)
            at(i) == (offsetAtCallStart + i) % nSampleBufferSize
            written == {at(i) : i \in nDone .. (nDone + n - 1)}
        IN  /\ \A i \in nDone .. (nDone + n - 1) : buf'[at(i)] = source[i + 1]
            /\ \A k \in DOMAIN buf : k \notin written => buf'[k] = buf[k]
            /\ Cardinality(written) = n]_vars

\* C4 witness: a call still running whose last commit filled both spans of
\* a region that wrapped past the buffer end
C4_Witness ==
    /\ pc = "write"
    /\ lastSpans[1] > 0 /\ lastSpans[2] > 0
    /\ nDone = lastSpans[1] + lastSpans[2]

\* C5: Init always returns success, and unless every step succeeded the
\* buffer is inactive afterwards and the wait signal exists.
C5_FailedInitFallsBack ==
    [][InitStep =>
        /\ ret' = "true"
        /\ initResult' # "ok" => (pdsb' = NULL /\ hEvent' # NULL /\ hEvent' \in osEvents')]_vars

\* C6: after an Init in which device creation failed there is no buffer, and
\* every AddData return gives false and consumes a signal that TimeCallback
\* has set since the previous return.
C6_PacedReturns ==
    [][/\ initResult' = "create" => pdsb' = NULL
       /\ (initResult = "create" /\ pc # "idle" /\ pc' = "idle") =>
             (pc = "wait" /\ ret' = "false" /\ fired /\ ~fired' /\ ~signalled')]_vars

\* C6 witness: an AddData has returned false after such an Init
C6_Witness ==
    initResult = "create" /\ pc = "idle" /\ ret = "false" /\ osTimers # {}

\* C7: in pacer mode, unless a timer start failed, every AddData call
\* returns: a call waiting on the created signal always has the signal set
\* or a timer running that will set it.
C7_WaitCanEnd ==
    (pc = "wait" /\ pdsb = NULL /\ hEvent # NULL /\ ~timerFailed) =>
        (signalled \/ osTimers # {})

\* the interval the frame-time formula gives for a speed, floored at 1
ClaimedInterval(speed) ==
    IF FrameRate(speed) = 0 \/ 1000 \div FrameRate(speed) = 0
    THEN 1
    ELSE 1000 \div FrameRate(speed)

\* C8: for every speed >= 1 the paced AddData computes the interval
\* 1000 / (50 * speed / 100), floored at 1, without an arithmetic fault:
\* 20 for speed 100, 10 for 200, 1 for 1.
C8_IntervalFlooredAtOne ==
    lastSpeed # 0 =>
        /\ pc # "fault"
        /\ dwTimer = ClaimedInterval(lastSpeed)
        /\ lastSpeed = 100 => dwTimer = 20
        /\ lastSpeed = 200 => dwTimer = 10
        /\ lastSpeed = 1 => dwTimer = 1

\* C9: after Silence on an active buffer every byte of the buffer is zero
\* and dwWriteOffset is the play cursor, whatever Lock and
\* GetCurrentPosition returned.
C9_SilenceZeroesAndResyncs ==
    [][SilenceStep =>
        /\ \A i \in DOMAIN buf' : buf'[i] = 0
        /\ DOMAIN buf' = 0 .. (nSampleBufferSize - 1)
        /\ dwWriteOffset' = devPlay']_vars

\* Exit run in this state would change nothing and release nothing
ExitIsNoOp ==
    /\ ExitReleases = {}
    /\ pdsb = NULL /\ pds = NULL /\ hTimer = NULL /\ hEvent = NULL
    /\ osBuffers = BuffersAfterRelease /\ osDevices = DevicesAfterRelease
    /\ osTimers = TimersAfterExit /\ osEvents = EventsAfterClose

\* C10: after Exit the buffer and device are released, no timer runs, the
\* wait signal is destroyed, and a second Exit changes and releases nothing.
C10_ExitReleasesAll ==
    [][AudioExit =>
        /\ pdsb' = NULL /\ osBuffers' = {} /\ osDevices' = {}
        /\ hTimer' = NULL /\ osTimers' = {}
        /\ hEvent' = NULL /\ osEvents' = {}
        /\ exitReleased' \subseteq {<<"pdsb", pdsb>>, <<"pds", pds>>, <<"hTimer", hTimer>>, <<"hEvent", hEvent>>}
        /\ ExitIsNoOp']_vars

\* C10 witness: Exit has just torn down a paced session that held a device,
\* a running timer and the wait signal
C10_Witness ==
    /\ pc = "idle"
    /\ {r[1] : r \in exitReleased} = {"pds", "hTimer", "hEvent"}
    /\ pdsb = NULL /\ pds = NULL /\ hTimer = NULL /\ hEvent = NULL

\* a step in which Silence runs, with any outcome of its device calls
AnySilenceStep ==
    \E lockOk \in BOOLEAN, queryOk \in BOOLEAN, garbage \in Indeterminate :
        AudioSilence(lockOk, queryOk, garbage)

\* C11: when the playback buffer is inactive, Silence makes no device call
\* (buffer memory, play cursor and the device's objects are as before) and
\* leaves dwWriteOffset, the timer, the stored interval and the wait signal
\* unchanged.
C11_SilenceInactiveNoOp ==
    [][(pdsb = NULL /\ AnySilenceStep) =>
        /\ UNCHANGED <<buf, devPlay, playing, osBuffers, osDevices, pds, pdsb>>
        /\ UNCHANGED <<dwWriteOffset, nSampleBufferSize>>
        /\ UNCHANGED <<hTimer, osTimers, dwTimer>>
        /\ UNCHANGED <<hEvent, osEvents, signalled>>]_vars

\* C11 witness: Silence has just returned in pacer mode with a timer running
\* and the signal set.  Only Silence leaves a caller idle with no result
\* while the wait signal exists: Init and AddData leave a result, Exit
\* closes the signal.
C11_Witness ==
    /\ pc = "idle" /\ ret = "none"
    /\ pdsb = NULL /\ hEvent # NULL
    /\ hTimer # NULL /\ osTimers # {} /\ signalled
    /\ dwWriteOffset # 0

\* a step of the write loop whose cursor query fails
QueryFails == \E lockOk \in BOOLEAN, unlockOk \in BOOLEAN : AddDataIterate(FALSE, lockOk, unlockOk)

\* C12: with the buffer active and playing and dwWriteOffset a position Lock
\* accepts, every AddData call with length > 0 eventually returns; a return
\* whose queries all succeeded has committed all nLength_ bytes; and the
\* write loop ends only when the remaining length reaches zero or a cursor
\* query fails.
C12_WriteLoopTerminates ==
    /\ [][(pc = "write" /\ pc' # "write") =>
            /\ pc' = "idle" /\ ret' = "true"
            /\ nLength' = 0 \/ QueryFails
            /\ ~QueryFails => (nLength' = 0 /\ nDone' = nDone + nLength)]_vars
    /\ (pc = "write" /\ playing /\ dwWriteOffset < nSampleBufferSize) ~> (pc = "idle")

\* C12 witness: a call for as many bytes as the buffer holds has returned
\* with all of them committed; the gap is never the whole buffer, so the
\* call had to wait for the play cursor to move and go round the loop again
C12_Witness ==
    /\ pc = "idle" /\ ret = "true"
    /\ pdsb # NULL /\ playing
    /\ nLength = 0 /\ nDone = MaxLength
    /\ nSampleBufferSize = FrameBytes /\ FrameBytes <= MaxLength

\* C13: whenever the playback buffer is active, 0 <= dwWriteOffset <
\* nSampleBufferSize, after any sequence of Init (with any latency, a
\* re-initialisation to a smaller buffer included), Exit, AddData and
\* Silence.  The offset a failed query leaves indeterminate in Silence (C9)
\* is set aside here: the largest DWORD is not counted as a violation.
C13_OffsetInRange ==
    (pdsb # NULL /\ dwWriteOffset # DWordModulus - 1) =>
        (0 <= dwWriteOffset /\ dwWriteOffset < nSampleBufferSize)

C15_FailedLockOrUnlockCommitsNothing ==
    [][\A lockOk \in BOOLEAN, unlockOk \in BOOLEAN :
        (/\ AddDataIterate(TRUE, lockOk, unlockOk)
         /\ AvailableSpace(devPlay) # 0
         /\ ~lockOk \/ ~unlockOk) =>
            /\ UNCHANGED <<dwWriteOffset, nLength, pbData>>
            /\ pc' = "write" /\ ret' = "none"]_vars

\* C16: when a cursor query fails inside AddData the call stops at once: the
\* failing iteration makes no lock and no copy, the call has returned after
\* it (so no later iteration queries, locks or copies), and dwWriteOffset
\* and the device buffer are as the earlier iterations of the call left
\* them.
C16_QueryFailureStopsCall ==
    [][QueryFails =>
        /\ pc' = "idle"
        /\ UNCHANGED <<dwWriteOffset, buf, nLength, nDone>>
        /\ UNCHANGED <<devPlay, playing, pdsb, nSampleBufferSize>>]_vars

\* C16 witness: a call has returned on a failed query after an earlier
\* iteration had committed a part of its bytes
C16_Witness ==
    /\ pc = "idle" /\ ret = "true" /\ pdsb # NULL
    /\ nDone > 0 /\ nLength > 0
    /\ dwWriteOffset = expectOffset

\* a step of the write loop whose cursor query succeeds
QuerySucceeds ==
    \E lockOk \in BOOLEAN, unlockOk \in BOOLEAN : AddDataIterate(TRUE, lockOk, unlockOk)

\* a step of the write loop whose query succeeds and whose Lock the device
\* does not refuse
LockNotRefused == \E unlockOk \in BOOLEAN : AddDataIterate(TRUE, TRUE, unlockOk)

FailedStartStep ==
    /\ \E speed \in Speeds : AddDataPacer(speed, FALSE)
    /\ dwTimer' # dwTimer

\* C18 as claimed: if starting the timer fails in pacer mode (the wait
\* signal exists), AddData still goes on to the wait, with no timer running,
\* and the call never returns.
C18_FailedStartNeverReturns ==
    [][/\ FailedStartStep => (pc' = "wait" /\ timerOp' = "failed" /\ osTimers' = {})
       /\ (pc = "wait" /\ timerOp = "failed" /\ hEvent # NULL) => pc' = "wait"]_vars

\* C18 amended: if starting the timer fails in pacer mode (the wait signal
\* exists), AddData still goes on to the wait, with no timer running; if the
\* signal was not already set when the call began to wait, nothing sets it
\* and the call never returns.
C18_FailedStartHangsUnlessSignalled ==
    [][/\ FailedStartStep => (pc' = "wait" /\ timerOp' = "failed" /\ osTimers' = {})
       /\ (pc = "wait" /\ timerOp = "failed" /\ hEvent # NULL /\ ~signalled) =>
            /\ pc' = "wait" /\ timerOp' = "failed"
            /\ hEvent' # NULL /\ ~signalled' /\ osTimers' = {}]_vars

\* C18 witness: a call waits on the unset signal after its timer start failed
C18_Witness ==
    /\ pc = "wait" /\ timerOp = "failed" /\ pdsb = NULL
    /\ hEvent # NULL /\ ~signalled
    /\ hTimer = NULL /\ osTimers = {}

\* C19: in every state reachable by Init, Exit, AddData and Silence at most
\* one periodic timer is running, it is the one hTimer names, and a timer
\* is running only while the playback buffer is inactive (so none runs
\* after an Init that created a buffer).
C19_OneTimerOnlyWithoutBuffer ==
    /\ Cardinality(osTimers) <= 1
    /\ \A t \in osTimers : t.id = hTimer
    /\ osTimers # {} => pdsb = NULL

\* C19 witness: after an Init that created the device but no buffer, a
\* call has replaced the running timer and waits; one timer runs
C19_Witness ==
    /\ pdsb = NULL /\ pds # NULL /\ initResult = "buffer"
    /\ pc = "wait" /\ timerOp = "restarted"
    /\ Cardinality(osTimers) = 1 /\ hTimer \in {t.id : t \in osTimers}

\* C20: the available space AddData computes lies in 0 .. bufferSize-1 for
\* every position of the play cursor and is 0 when dwWriteOffset equals the
\* play cursor; and an AddData issued right after Silence commits no byte
\* until the play cursor has moved from where it was at Silence.
C20_NoSpaceAtEqualCursors ==
    /\ [](pdsb # NULL =>
            \A cursor \in 0 .. (nSampleBufferSize - 1) :
                /\ SpaceAt(cursor) \in 0 .. (nSampleBufferSize - 1)
                /\ cursor = dwWriteOffset => SpaceAt(cursor) = 0)
    /\ [][(silenced /\ pc = "write") =>
            UNCHANGED <<buf, dwWriteOffset, nLength, nDone>>]_vars

====
